---- MODULE Spec2Model ----
(***************************************************************************)
(* hdf5_to_text_table: one run of main() as a state machine.               *)
(*                                                                         *)
(* A Python str is a sequence of one-character strings (<<"/", "a">> is    *)
(* "/a"), so that comparison, padding, joining, stripping and splitting    *)
(* are computed character by character as CPython computes them.           *)
(* A numpy array is [shape, flat]: ndim = Len(shape), size = the product   *)
(* of shape.  Element values are the integers 0..9.                        *)
(*                                                                         *)
(* args is immutable in the program.  The model fixes each field of args   *)
(* at the line of main() that first reads it; the runs are the same as     *)
(* with all fields fixed at line 18.                                       *)
(***************************************************************************)
EXTENDS Integers, Sequences, FiniteSets, TLC

VARIABLES
    pc,          \* the line of main() the run is at
    args,        \* parse_args() namespace (fields fixed when first read)
    data,        \* main: data (list of dicts)
    columns,     \* main: columns
    precision,   \* main: precision
    ignore,      \* main: ignore
    table,       \* main: table as returned by build_table (rows of cells)
    header,      \* main: header
    table_text,  \* main: table as returned by convert_to_text (lines)
    stdout,      \* lines printed by the preview loop
    fs,          \* the output path on disk: [exists, content]
    error        \* the exception that ended the run, if any

vars == <<pc, args, data, columns, precision, ignore, table, header,
          table_text, stdout, fs, error>>

(***************************************************************************)
(* Bounds of the inputs.                                                   *)
(***************************************************************************)
MaxColumns == 2      \* most tokens in --columns
MaxPrecision == 2    \* most tokens in --precision

(***************************************************************************)
(* Python str and list primitives.                                         *)
(***************************************************************************)
\* The characters the model uses, in code point order.
AsciiOrder ==
    <<" ", "#", "+", ",", "-", ".", "/",
      "0", "1", "2", "3", "4", "5", "6", "7", "8", "9",
      "a", "b", "c", "d", "e", "f", "k", "l", "m", "o", "s", "t", "z">>

Ord(c) == CHOOSE i \in 1..Len(AsciiOrder) : AsciiOrder[i] = c

Digits == <<"0", "1", "2", "3", "4", "5", "6", "7", "8", "9">>

IsDigit(c) == \E i \in 1..Len(Digits) : Digits[i] = c

DigitVal(c) == (CHOOSE i \in 1..Len(Digits) : Digits[i] = c) - 1

Min(a, b) == IF a <= b THEN a ELSE b

Max(a, b) == IF a >= b THEN a ELSE b

\* str.__lt__: lexicographic by code point, a proper prefix is smaller.
RECURSIVE StrLess(_, _)
StrLess(s, t) ==
    IF t = <<>> THEN FALSE
    ELSE IF s = <<>> THEN TRUE
    ELSE IF Head(s) = Head(t) THEN StrLess(Tail(s), Tail(t))
    ELSE Ord(Head(s)) < Ord(Head(t))

\* x in list
In(x, list) == \E i \in 1..Len(list) : list[i] = x

\* list.index(x), 0-based, for x in list
Index(list, x) == (CHOOSE i \in 1..Len(list) :
                      list[i] = x /\ \A j \in 1..(i - 1) : list[j] # x) - 1

\* Insert x after every element that is not greater (keeps a sort stable).
RECURSIVE InsertStr(_, _)
InsertStr(x, list) ==
    IF list = <<>> THEN <<x>>
    ELSE IF StrLess(x, Head(list)) THEN <<x>> \o list
    ELSE <<Head(list)>> \o InsertStr(x, Tail(list))

\* sorted(list) for a list of str
RECURSIVE SortedStr(_)
SortedStr(list) ==
    IF list = <<>> THEN <<>>
    ELSE InsertStr(list[Len(list)], SortedStr(SubSeq(list, 1, Len(list) - 1)))

\* The names of a group in iteration order (h5py iterates by name).
RECURSIVE KeysOf(_)
KeysOf(S) ==
    IF S = {} THEN <<>>
    ELSE LET m == CHOOSE x \in S : \A y \in S \ {x} : StrLess(x, y)
         IN <<m>> \o KeysOf(S \ {m})

\* str(n) for n >= 0
RECURSIVE Str(_)
Str(n) == IF n < 10 THEN <<Digits[n + 1]>>
          ELSE Str(n \div 10) \o <<Digits[(n % 10) + 1]>>

\* c * n
RECURSIVE Repeat(_, _)
Repeat(c, n) == IF n <= 0 THEN <<>> ELSE <<c>> \o Repeat(c, n - 1)

\* format(s, ">w"): pad on the left to width w
RJust(s, w) == Repeat(" ", w - Len(s)) \o s

\* format(s, "^w"): floor half of the padding on the left, the rest right
Center(s, w) ==
    LET pad == Max(w - Len(s), 0)
    IN Repeat(" ", pad \div 2) \o s \o Repeat(" ", pad - (pad \div 2))

\* str.rstrip()
RECURSIVE RStrip(_)
RStrip(s) ==
    IF s # <<>> /\ s[Len(s)] = " " THEN RStrip(SubSeq(s, 1, Len(s) - 1))
    ELSE s

\* A join that also puts the delimiter after the last cell.
RECURSIVE JoinTrailing(_, _)
JoinTrailing(delimiter, cells) ==
    IF cells = <<>> THEN <<>>
    ELSE cells[1] \o delimiter \o JoinTrailing(delimiter, Tail(cells))

\* delimiter.join(cells)
RECURSIVE Join(_, _)
Join(delimiter, cells) ==
    IF cells = <<>> THEN <<>>
    ELSE IF Len(cells) = 1 THEN cells[1]
    ELSE cells[1] \o delimiter \o Join(delimiter, Tail(cells))

\* s.startswith(d)
StartsWith(s, d) == Len(s) >= Len(d) /\ SubSeq(s, 1, Len(d)) = d

\* len(s.split(d)) for a non-empty d: matches are taken left to right and
\* do not overlap.
RECURSIVE SplitCount(_, _)
SplitCount(s, d) ==
    IF s = <<>> THEN 1
    ELSE IF StartsWith(s, d)
         THEN 1 + SplitCount(SubSeq(s, Len(d) + 1, Len(s)), d)
    ELSE SplitCount(Tail(s), d)

(***************************************************************************)
(* numpy arrays and format(value, p).                                      *)
(***************************************************************************)
Ndim(a) == Len(a.shape)

RECURSIVE Product(_)
Product(shape) == IF shape = <<>> THEN 1 ELSE Head(shape) * Product(Tail(shape))

Size(a) == Product(a.shape)

\* The decimal number that starts at s[i]: <<value, index after it>>.
RECURSIVE ParseNat(_, _, _)
ParseNat(s, i, acc) ==
    IF i <= Len(s) /\ IsDigit(s[i])
    THEN ParseNat(s, i + 1, 10 * acc + DigitVal(s[i]))
    ELSE <<acc, i>>

\* A format spec "[width][.precision]type" with type e or f.
FormatSpec(p) ==
    LET w == ParseNat(p, 1, 0)
        hasPrec == w[2] <= Len(p) /\ p[w[2]] = "."
        pr == IF hasPrec THEN ParseNat(p, w[2] + 1, 0) ELSE <<6, w[2]>>
    IN [width |-> w[1], prec |-> pr[1], type |-> p[pr[2]]]

\* f"{value:{p}}" for value in 0..9: the digit, the fraction, the exponent
\* of type e, right-aligned in the width.
Format(value, p) ==
    LET spec == FormatSpec(p)
        frac == IF spec.prec > 0 THEN <<".">> \o Repeat("0", spec.prec)
                ELSE <<>>
        exp  == IF spec.type = "e" THEN <<"e", "+", "0", "0">> ELSE <<>>
    IN RJust(Str(value) \o frac \o exp, spec.width)

(***************************************************************************)
(* The inputs of a run: HDF5 files, command lines, the output path.        *)
(***************************************************************************)
Dataset(shape, flat) ==
    [kind |-> "Dataset", data |-> [shape |-> shape, flat |-> flat]]

Group(children) == [kind |-> "Group", children |-> children]

\* A committed datatype: neither h5py.Dataset nor h5py.Group.
Datatype == [kind |-> "Datatype"]

\* /a = [1 2 3], /b/c = [4 5]
FileAB ==
    (<<"a">> :> Dataset(<<3>>, <<1, 2, 3>>))
    @@ (<<"b">> :> Group(<<"c">> :> Dataset(<<2>>, <<4, 5>>)))

\* /a = [1 2 3], /b/a = [6 7], /b/c = [4 5]: two datasets named a
FileTwoA ==
    (<<"a">> :> Dataset(<<3>>, <<1, 2, 3>>))
    @@ (<<"b">> :> Group((<<"a">> :> Dataset(<<2>>, <<6, 7>>))
                         @@ (<<"c">> :> Dataset(<<2>>, <<4, 5>>))))

\* Every shape: /a 1-d, /e 1-d of size 0, /k 0-d, /m 2-d, /s 1-d of size 1,
\* /t a committed datatype.
FileShapes ==
    (<<"a">> :> Dataset(<<3>>, <<1, 2, 3>>))
    @@ (<<"e">> :> Dataset(<<0>>, <<>>))
    @@ (<<"k">> :> Dataset(<<>>, <<8>>))
    @@ (<<"m">> :> Dataset(<<2, 2>>, <<1, 2, 3, 4>>))
    @@ (<<"s">> :> Dataset(<<1>>, <<7>>))
    @@ (<<"t">> :> Datatype)

\* Only /e, 1-d of size 0
FileZero == (<<"e">> :> Dataset(<<0>>, <<>>))

\* Only datasets of size 1 and of 2 dimensions
FileNoSeries ==
    (<<"m">> :> Dataset(<<2, 2>>, <<1, 2, 3, 4>>))
    @@ (<<"s">> :> Dataset(<<1>>, <<7>>))

\* A file with no members
FileEmpty == <<>>

Files == {FileAB, FileTwoA, FileShapes, FileZero, FileNoSeries, FileEmpty}

ColumnTokens == {<<"a">>, <<"/", "a">>, <<"z", "z">>}

PrecisionTokens == {<<"3", ".", "0", "f">>, <<"5", ".", "1", "f">>}

\* --ignore absent, a full path, a name
IgnoreLists == {<<>>, <<<<"/", "a">>>>, <<<<"c">>>>}

DefaultDelimiter == <<" ", " ", " ", " ">>

Delimiters == {DefaultDelimiter, <<",">>}

DefaultPrecision == <<"1", "0", ".", "3", "e">>

\* All lists over S of at most n tokens (the empty list: the option absent).
SeqsUpTo(S, n) == UNION {[1..k -> S] : k \in 0..n}

NoFile == [exists |-> FALSE, content |-> <<>>]

OldFile == [exists |-> TRUE, content |-> <<<<"o", "l", "d">>>>]

NoError == [type |-> "none", where |-> "none", values |-> <<>>]

(***************************************************************************)
(* read_hdf5_file                                                          *)
(***************************************************************************)
RECURSIVE Loop(_, _, _)
Loop(elements, names, tree) ==
    IF names = <<>> THEN <<>>
    ELSE LET e == Head(names)
             subtree == tree \o <<"/">> \o e
             element == elements[e]
             found ==
                 IF element.kind = "Dataset"
                 THEN <<[name |-> e, tree |-> subtree, data |-> element.data]>>
                 ELSE IF element.kind = "Group"
                 THEN Loop(element.children,
                           KeysOf(DOMAIN element.children), subtree)
                 ELSE <<>>
         IN found \o Loop(elements, Tail(names), tree)

read_hdf5_file(inputfile) == Loop(inputfile, KeysOf(DOMAIN inputfile), <<>>)

(***************************************************************************)
(* filter_data                                                             *)
(***************************************************************************)
\* d["pos"] = k
SetPos(d, k) == [name |-> d.name, tree |-> d.tree, data |-> d.data, pos |-> k]

\* The loop over ignore (lines 210-213).  Its continue continues this loop,
\* not the loop over data: whether or not a token matches, the iteration of
\* the outer loop goes on to line 215.  The value is whether the outer
\* iteration is skipped.
RECURSIVE IgnoreLoop(_, _)
IgnoreLoop(d, rest) ==
    IF rest = <<>> THEN FALSE
    ELSE IF In(Head(rest), <<d.name, d.tree>>)
         THEN IgnoreLoop(d, Tail(rest))     \* print_func; continue
    ELSE IgnoreLoop(d, Tail(rest))

\* One iteration of the loop over data: what it appends to data_parsed.
FilterOne(d, ign, cols) ==
    IF Ndim(d.data) # 1 THEN <<>>
    ELSE IF Size(d.data) = 1 THEN <<>>
    ELSE IF IgnoreLoop(d, ign) THEN <<>>
    ELSE IF Len(cols) > 0
         THEN IF In(d.tree, cols) THEN <<SetPos(d, Index(cols, d.tree))>>
              ELSE IF In(d.name, cols) THEN <<SetPos(d, Index(cols, d.name))>>
              ELSE <<>>
    ELSE <<d>>

RECURSIVE filter_data(_, _, _)
filter_data(ds, ign, cols) ==
    IF ds = <<>> THEN <<>>
    ELSE FilterOne(Head(ds), ign, cols) \o filter_data(Tail(ds), ign, cols)

(***************************************************************************)
(* main, lines 32-48: the columns, the precisions, the order               *)
(***************************************************************************)
\* sorted([d["tree"] for d in data])
TreesOf(ds) == [i \in 1..Len(ds) |-> ds[i].tree]

\* Lines 32-35: with no --columns, the columns are the sorted trees and
\* each d["pos"] is the index of its tree.
ResolvedColumns(cols, ds) ==
    IF Len(cols) = 0 THEN SortedStr(TreesOf(ds)) ELSE cols

ResolvedData(cols, ds) ==
    IF Len(cols) = 0
    THEN [i \in 1..Len(ds) |->
             SetPos(ds[i], Index(SortedStr(TreesOf(ds)), ds[i].tree))]
    ELSE ds

\* A check that only refuses more precisions than columns.
PrecisionTooMany(prec, cols) ==
    Len(prec) # 0 /\ Len(prec) # 1 /\ Len(prec) > Len(cols)

\* Lines 37-41: the condition of the raise.
PrecisionMismatch(prec, cols) ==
    Len(prec) # 0 /\ Len(prec) # 1 /\ Len(prec) # Len(cols)

\* Lines 37-40: the list of precisions when nothing is raised.
ResolvedPrecision(prec, cols) ==
    IF Len(prec) = 0 THEN [i \in 1..Len(cols) |-> DefaultPrecision]
    ELSE IF Len(prec) = 1 THEN [i \in 1..Len(cols) |-> prec[1]]
    ELSE prec

\* Insert d after every element whose pos is not greater.
RECURSIVE InsertByPos(_, _)
InsertByPos(d, ds) ==
    IF ds = <<>> THEN <<d>>
    ELSE IF d.pos < Head(ds).pos THEN <<d>> \o ds
    ELSE <<Head(ds)>> \o InsertByPos(d, Tail(ds))

\* No sort: data stays in the order of the file.
FileOrder(ds) == ds

\* data.sort(key=lambda d: d["pos"]): stable
RECURSIVE SortByPos(_)
SortByPos(ds) ==
    IF ds = <<>> THEN <<>>
    ELSE InsertByPos(ds[Len(ds)], SortByPos(SubSeq(ds, 1, Len(ds) - 1)))

(***************************************************************************)
(* build_table, create_header                                              *)
(***************************************************************************)
\* The size of the first series instead of the largest.
FirstSize(ds) == Size(ds[1].data)

\* max([d["data"].size for d in data]) for a non-empty data
RECURSIVE MaxSize(_)
MaxSize(ds) ==
    IF Len(ds) = 1 THEN Size(ds[1].data)
    ELSE Max(Size(Head(ds).data), MaxSize(Tail(ds)))

\* The cell of row n (from 0) for the pair (p, d) of zip(precision, data).
Placeholder == <<"-">>

Cell(p, d, n) ==
    IF n < Size(d.data) THEN Format(d.data.flat[n + 1], p) ELSE Placeholder

\* f"{n+1:{len(str(max_rows))}d}"
NumberCell(n, max_rows) == RJust(Str(n + 1), Len(Str(max_rows)))

\* One row: the number cell if asked, then a cell per pair of the zip,
\* which ends with the shorter of precision and data.
Line(prec, ds, number, n, max_rows) ==
    (IF number THEN <<NumberCell(n, max_rows)>> ELSE <<>>)
    \o [j \in 1..Min(Len(prec), Len(ds)) |-> Cell(prec[j], ds[j], n)]

build_table(ds, prec, number) ==
    LET max_rows == MaxSize(ds)
    IN [r \in 1..max_rows |-> Line(prec, ds, number, r - 1, max_rows)]

create_header(ds, number, full_name) ==
    (IF number THEN <<<<"#">>>> ELSE <<>>)
    \o [j \in 1..Len(ds) |-> IF full_name THEN ds[j].tree ELSE ds[j].name]

(***************************************************************************)
(* convert_to_text                                                         *)
(***************************************************************************)
\* column_sizes[i] after the loop over table: the longest of header[i] and
\* the i-th cell of every row that has one.
ColumnSize(rows, head, i) ==
    LET lens == {Len(head[i])}
                \cup {Len(rows[r][i]) : r \in {q \in 1..Len(rows) :
                                                  i <= Len(rows[q])}}
    IN CHOOSE m \in lens : \A x \in lens : x <= m

ColumnSizes(rows, head) == [i \in 1..Len(head) |-> ColumnSize(rows, head, i)]

RECURSIVE Sum(_)
Sum(list) == IF list = <<>> THEN 0 ELSE Head(list) + Sum(Tail(list))

\* Lines 310-315: the header, centred, joined, right-stripped.
HeaderLine(head, sizes, delimiter) ==
    RStrip(Join(delimiter, [i \in 1..Len(head) |-> Center(head[i], sizes[i])]))

\* Lines 317-319
RuleLine(sizes, delimiter) ==
    Repeat("-", Sum(sizes) + (Len(sizes) - 1) * Len(delimiter))

\* Lines 321-326: one row, each cell right-aligned, joined, right-stripped.
RowLine(line, sizes, delimiter) ==
    RStrip(Join(delimiter,
                [i \in 1..Min(Len(line), Len(sizes)) |->
                    RJust(line[i], sizes[i])]))

convert_to_text(rows, head, delimiter) ==
    LET sizes == ColumnSizes(rows, head)
    IN <<HeaderLine(head, sizes, delimiter), RuleLine(sizes, delimiter)>>
       \o [r \in 1..Len(rows) |-> RowLine(rows[r], sizes, delimiter)]

(***************************************************************************)
(* write_table                                                             *)
(***************************************************************************)
\* A write_table without the check of line 336.
NeverRefused(exists, overwrite) == FALSE

\* Line 336: the condition of the raise.
WriteRefused(exists, overwrite) == exists /\ ~overwrite

\* open(filename, "w"): the file exists and is empty.
Opened == [exists |-> TRUE, content |-> <<>>]

\* Lines 343-345: every line but the last with "\n", the last without:
\* the file holds the lines of the table.
Written(lines) == [exists |-> TRUE, content |-> lines]

(***************************************************************************)
(* The run of main()                                                       *)
(***************************************************************************)
\* What argparse gives when no option is on the command line.
DefaultArgs ==
    [columns |-> <<>>, precision |-> <<>>, ignore |-> <<>>,
     delimiter |-> DefaultDelimiter, full_name |-> FALSE, number |-> FALSE,
     overwrite |-> FALSE, preview |-> FALSE]

Init ==
    /\ pc = "read_hdf5_file"
    /\ args = DefaultArgs
    /\ data = <<>>
    /\ columns = <<>>
    /\ precision = <<>>
    /\ ignore = <<>>
    /\ table = <<>>
    /\ header = <<>>
    /\ table_text = <<>>
    /\ stdout = <<>>
    /\ fs \in {NoFile, OldFile}
    /\ error = NoError

\* An exception nobody catches ends the run.
Raise(type, where, values) ==
    /\ pc' = "exit"
    /\ error' = [type |-> type, where |-> where, values |-> values]

\* Line 24
ReadHdf5File ==
    /\ pc = "read_hdf5_file"
    /\ \E f \in Files : data' = read_hdf5_file(f)
    /\ pc' = "split"
    /\ UNCHANGED <<args, columns, precision, ignore, table, header,
                   table_text, stdout, fs, error>>

\* Lines 26-28
SplitOptions ==
    /\ pc = "split"
    /\ \E c \in SeqsUpTo(ColumnTokens, MaxColumns),
          p \in SeqsUpTo(PrecisionTokens, MaxPrecision),
          i \in IgnoreLists :
          /\ args' = [args EXCEPT !.columns = c, !.precision = p, !.ignore = i]
          /\ columns' = c
          /\ precision' = p
          /\ ignore' = i
    /\ pc' = "filter_data"
    /\ UNCHANGED <<data, table, header, table_text, stdout, fs, error>>

\* Line 30
FilterData ==
    /\ pc = "filter_data"
    /\ data' = filter_data(data, ignore, columns)
    /\ pc' = "columns"
    /\ UNCHANGED <<args, columns, precision, ignore, table, header,
                   table_text, stdout, fs, error>>

\* Lines 32-35
ResolveColumns ==
    /\ pc = "columns"
    /\ columns' = ResolvedColumns(columns, data)
    /\ data' = ResolvedData(columns, data)
    /\ pc' = "precision"
    /\ UNCHANGED <<args, precision, ignore, table, header, table_text,
                   stdout, fs, error>>

\* Lines 37-46
ResolvePrecision ==
    /\ pc = "precision"
    /\ IF PrecisionMismatch(precision, columns)
       THEN /\ Raise("ValueError", "main", <<Len(precision), Len(columns)>>)
            /\ UNCHANGED precision
       ELSE /\ precision' = ResolvedPrecision(precision, columns)
            /\ pc' = "sort"
            /\ UNCHANGED error
    /\ UNCHANGED <<args, data, columns, ignore, table, header, table_text,
                   stdout, fs>>

\* Line 48
SortData ==
    /\ pc = "sort"
    /\ data' = SortByPos(data)
    /\ pc' = "build_table"
    /\ UNCHANGED <<args, columns, precision, ignore, table, header,
                   table_text, stdout, fs, error>>

\* Line 50.  max() of an empty list raises ValueError (line 247).
BuildTable ==
    /\ pc = "build_table"
    /\ \E number \in BOOLEAN :
          /\ args' = [args EXCEPT !.number = number]
          /\ IF data = <<>>
             THEN /\ Raise("ValueError", "build_table", <<>>)
                  /\ UNCHANGED table
             ELSE /\ table' = build_table(data, precision, number)
                  /\ pc' = "create_header"
                  /\ UNCHANGED error
    /\ UNCHANGED <<data, columns, precision, ignore, header, table_text,
                   stdout, fs>>

\* Line 52
CreateHeader ==
    /\ pc = "create_header"
    /\ \E full_name \in BOOLEAN :
          /\ args' = [args EXCEPT !.full_name = full_name]
          /\ header' = create_header(data, args.number, full_name)
    /\ pc' = "convert_to_text"
    /\ UNCHANGED <<data, columns, precision, ignore, table, table_text,
                   stdout, fs, error>>

\* Line 54
ConvertToText ==
    /\ pc = "convert_to_text"
    /\ \E delimiter \in Delimiters :
          /\ args' = [args EXCEPT !.delimiter = delimiter]
          /\ table_text' = convert_to_text(table, header, delimiter)
    /\ pc' = "check_empty"
    /\ UNCHANGED <<data, columns, precision, ignore, table, header, stdout,
                   fs, error>>

\* Lines 56-58: return (None) when the text has no line.
CheckEmpty ==
    /\ pc = "check_empty"
    /\ pc' = IF Len(table_text) = 0 THEN "exit" ELSE "preview"
    /\ UNCHANGED <<args, data, columns, precision, ignore, table, header,
                   table_text, stdout, fs, error>>

\* Lines 60-62
Preview ==
    /\ pc = "preview"
    /\ \E preview \in BOOLEAN :
          /\ args' = [args EXCEPT !.preview = preview]
          /\ stdout' = IF preview THEN table_text ELSE stdout
    /\ pc' = "write_table"
    /\ UNCHANGED <<data, columns, precision, ignore, table, header,
                   table_text, fs, error>>

\* Lines 64-70 and 336-340: the call of write_table and its check.
WriteTableCheck ==
    /\ pc = "write_table"
    /\ \E overwrite \in BOOLEAN :
          /\ args' = [args EXCEPT !.overwrite = overwrite]
          /\ IF WriteRefused(fs.exists, overwrite)
             THEN Raise("OSError", "write_table", <<>>)
             ELSE /\ pc' = "open"
                  /\ UNCHANGED error
    /\ UNCHANGED <<data, columns, precision, ignore, table, header,
                   table_text, stdout, fs>>

\* Line 342
WriteTableOpen ==
    /\ pc = "open"
    /\ fs' = Opened
    /\ pc' = "write"
    /\ UNCHANGED <<args, data, columns, precision, ignore, table, header,
                   table_text, stdout, error>>

\* Lines 343-347 and line 72: the lines are written, the file is closed,
\* main returns 0.
WriteTableWrite ==
    /\ pc = "write"
    /\ fs' = Written(table_text)
    /\ pc' = "exit"
    /\ UNCHANGED <<args, data, columns, precision, ignore, table, header,
                   table_text, stdout, error>>

Next ==
    \/ ReadHdf5File
    \/ SplitOptions
    \/ FilterData
    \/ ResolveColumns
    \/ ResolvePrecision
    \/ SortData
    \/ BuildTable
    \/ CreateHeader
    \/ ConvertToText
    \/ CheckEmpty
    \/ Preview
    \/ WriteTableCheck
    \/ WriteTableOpen
    \/ WriteTableWrite

Spec == Init /\ [][Next]_vars

\* sys.exit(main()): 0 when main returns (None or 0), 1 when it raises.
ExitStatus == IF error.type = "none" THEN 0 ELSE 1

(***************************************************************************)
(* Where the run is                                                        *)
(***************************************************************************)
\* filter_data has returned (line 30 is done).
Filtered == pc \notin {"read_hdf5_file", "split", "filter_data"}

\* Lines 37-46 are done, by the raise or not.
PastPrecision == Filtered /\ pc \notin {"columns", "precision"}

\* data.sort has returned (line 48 is done).
Sorted == PastPrecision /\ pc # "sort" /\ error.where # "main"

\* build_table has returned a table (line 50 is done).
TableBuilt == Sorted /\ pc # "build_table" /\ error.where # "build_table"

\* create_header has returned (line 52 is done).
HeaderMade == TableBuilt /\ pc # "create_header"

\* convert_to_text has returned (line 54 is done).
Rendered == HeaderMade /\ pc # "convert_to_text"

\* The output path is as the run found it.
Untouched == fs \in {NoFile, OldFile}

\* d occurs in s
Occurs(d, s) == \E i \in 1..Len(s) : StartsWith(SubSeq(s, i, Len(s)), d)

\* The number cell's offset in a row or in the header.
Offset == IF args.number THEN 1 ELSE 0

(***************************************************************************)
(* The claims                                                              *)
(***************************************************************************)

\* C1: after filter_data no series of the result has its name or its full
\* path among the tokens of the ignore list.
C1_IgnoredAbsent ==
    Filtered =>
        \A i \in 1..Len(data) :
            ~In(data[i].name, ignore) /\ ~In(data[i].tree, ignore)

\* C2: a run in which no series survives selection (and whose precision
\* list is admissible for zero columns) ends without an error, with exit
\* status 0, and leaves the output path as it was.
C2_EmptyEndsQuietly ==
    (pc = "exit" /\ data = <<>> /\ Len(args.precision) \in {0, 1})
        => (error = NoError /\ ExitStatus = 0 /\ Untouched)

\* C3: with C >= 1 the number of selected series and T the number of
\* precision tokens: if T is 0, 1 or C, the precision check does not fail
\* and every column of the table is formatted with the default, the single,
\* or its own token; otherwise the run has failed with the error that names
\* T and C.
C3_PrecisionPerColumn ==
    LET C == Len(data)
        T == Len(args.precision)
        token(j) == IF T = 0 THEN DefaultPrecision
                    ELSE IF T = 1 THEN args.precision[1]
                    ELSE args.precision[j]
    IN /\ (PastPrecision /\ C >= 1 /\ T \notin {0, 1, C}) =>
              error = [type |-> "ValueError", where |-> "main",
                       values |-> <<T, C>>]
       /\ (PastPrecision /\ C >= 1 /\ T \in {0, 1, C}) => error.where # "main"
       /\ (TableBuilt /\ T \in {0, 1, C}) =>
              \A r \in 1..Len(table) : \A j \in 1..C :
                  r <= Size(data[j].data) =>
                      /\ j + Offset <= Len(table[r])
                      /\ table[r][j + Offset]
                             = Format(data[j].data.flat[r], token(j))

\* C4: every row of the table has as many cells as the header, one per
\* selected series plus the number cell when rows are numbered.
C4_RowsMatchHeader ==
    HeaderMade =>
        /\ Len(header) = Len(data) + Offset
        /\ \A r \in 1..Len(table) : Len(table[r]) = Len(header)

\* C5: the series of the table are in ascending order of pos; with no
\* --columns, pos is the rank of the series' path among the retained
\* paths; with --columns, pos is the first index of the series' path in
\* columns if the path is a token, otherwise the first index of its name,
\* and every series of the table matches a token.
C5_ColumnOrder ==
    Sorted =>
        /\ \A i \in 1..Len(data) : \A j \in 1..Len(data) :
               i < j => data[i].pos <= data[j].pos
        /\ args.columns = <<>> =>
               \A i \in 1..Len(data) :
                   data[i].pos = Cardinality({j \in 1..Len(data) :
                                      StrLess(data[j].tree, data[i].tree)})
        /\ args.columns # <<>> =>
               \A i \in 1..Len(data) :
                   LET key == IF In(data[i].tree, args.columns)
                              THEN data[i].tree ELSE data[i].name
                       k == data[i].pos + 1
                   IN /\ k \in 1..Len(args.columns)
                      /\ args.columns[k] = key
                      /\ \A m \in 1..(k - 1) : args.columns[m] # key

C7_OnlyLongVectors ==
    Filtered =>
        \A i \in 1..Len(data) :
            Ndim(data[i].data) = 1 /\ Size(data[i].data) >= 2

\* C8: write_table opens the output path only if it does not exist or
\* overwrite is set; when it exists and overwrite is not set the run ends
\* with OSError and the file is as it was; nothing else touches the path.
C8_NoClobber ==
    /\ pc = "open" => (~fs.exists \/ args.overwrite)
    /\ error.type = "OSError" =>
           (pc = "exit" /\ fs = OldFile /\ ~args.overwrite)
    /\ ~Untouched => (pc \in {"write", "exit"} /\ error = NoError)

DelimiterForeign ==
    \A c \in 1..Len(args.delimiter) :
        /\ args.delimiter[c] # " "
        /\ \A i \in 1..Len(header) : ~In(args.delimiter[c], header[i])
        /\ \A r \in 1..Len(table) : \A i \in 1..Len(table[r]) :
               ~In(args.delimiter[c], table[r][i])

C5_Witness ==
    /\ Sorted
    /\ args.columns # <<>>
    /\ Len(data) >= 2
    /\ data[1].pos < data[2].pos
    /\ StrLess(data[2].tree, data[1].tree)

C8_Witness ==
    /\ pc = "exit"
    /\ error.type = "OSError"
    /\ fs = OldFile
    /\ Len(table_text) >= 3

====
